---- MODULE Spec2Model ----
(***************************************************************************)
(* Model of the Align repository tracker (src/src/app.py and helpers).     *)
(*                                                                         *)
(* Two threads of control touch a repository: the watchdog observer thread *)
(* of the repository (RepoChangeHandler.on_any_event) and the UI thread    *)
(* that runs main() and the button callbacks (add_repository,              *)
(* remove_repository, refresh_all_repos, refresh_selected_repos).  The     *)
(* code takes no lock, so refresh_repo is modelled as two steps on each    *)
(* thread (scan: lines 381-401, write: lines 403-428) that can interleave  *)
(* with each other and with changes of the file system.                    *)
(*                                                                         *)
(* A tree is abstracted to a content version of its hashed files plus the  *)
(* state of its .gitignore; the fingerprint is collision free on that.     *)
(* The sidecar is the NTFS alternate data stream "Align.md:align_hash",    *)
(* which is no file of the tree.                                           *)
(***************************************************************************)
EXTENDS Integers, Sequences, FiniteSets, TLC

\* ---------------------------------------------------------------- bounds
NRepos == 3          \* directories the user can track
MaxVer == 1          \* content versions of a tree are 0..MaxVer
TicksPerSecond == 2  \* clock resolution
MaxTicks == 2        \* clock ticks after start-up
MaxDepth == 2        \* directories above a file of a scanned tree
MaxFiles == 2        \* files of a scanned tree
MaxTokens == 3       \* tokens of the text of a .gitignore

Repos == 1..NRepos
Versions == 0..MaxVer

\* config.py:19  REFRESH_COOLDOWN: float = 1.0 (seconds), in clock ticks
REFRESH_COOLDOWN == 1 * TicksPerSecond
\* markdown_generator.py:58  "max_width = 50 + (max_indent_level * 4)"
BaseWidth == 50
\* app.py:476  "if i == len(repos_to_refresh) or i % 3 == 0"
UpdatePeriod == 3

StartTime == REFRESH_COOLDOWN   \* time.time() is far above the cooldown
MaxTime == StartTime + MaxTicks

None == <<"None">>
NoDoc == <<"NoDoc">>
EditedDoc == <<"EditedDoc">>
EmptyHash == <<"empty">>

EventKinds == {"align", "tmp", "other"}
GitignoreStates == {"absent", "plain", "entry"}
Faults == {"none", "write", "sidecar"}

VARIABLES
    \* file system, one tree per directory
    exists,        \* os.path.exists(path)
    tree,          \* content version of the hashed files other than .gitignore
    gitignore,     \* .gitignore: absent, without or with the Align.md entry
    alignDoc,      \* content of Align.md
    sidecar,       \* content of the stream Align.md:align_hash
    fault,         \* which write the file system refuses in this directory
    watchFails,    \* directories for which starting an observer raises
    \* RepoWatcher.observers and the fields of each RepoChangeHandler
    observers, current_hash, saved_hash, last_refresh, is_refreshing,
    sessions,      \* observer threads started and not stopped, per path
    pending,       \* events queued by the observer of a repository
    \* observer thread of each repository
    obsPc, obsHash, obsRet,
    \* config file, widgets and the UI thread
    repos, uiEntries, uiPc, uiOp, uiList, uiIdx, uiCount, uiHash, uiRet,
    statusMsg,
    \* clock
    now,
    accepted,      \* history: the times at which an event passed the gate
    lastEvent,     \* history: when the handler got its last event, and
                   \* whether that was less than a cooldown after the one before
    \* one scan of a tree by the fingerprint and by the listing
    scanFiles,     \* the relative paths of the files of the tree
    scanSpec,      \* the names listed in its .gitignore
    scanPc, hashed, listing,
    \* the fingerprint of that tree before and after one change
    scanBytes,     \* the content of each file
    digest,        \* the value calculate_repo_hash returned last
    prevDigest,    \* the value it returned before that
    changed,       \* the file that was written, added or removed
    \* the text of one .gitignore over successive refreshes
    gitignoreText, \* its content, None when there is no file
    gitignorePrev, \* its content before the last call
    ensureCalls    \* the calls of ensure_align_in_gitignore so far

fsVars == <<exists, tree, gitignore, alignDoc, sidecar, fault, watchFails>>
handlerVars == <<observers, current_hash, saved_hash, last_refresh, is_refreshing,
                 sessions>>
obsVars == <<obsPc, obsHash, obsRet>>
uiVars == <<repos, uiEntries, uiPc, uiOp, uiList, uiIdx, uiCount, uiHash, uiRet, statusMsg>>
hashVars == <<scanBytes, digest, prevDigest, changed>>
ignoreVars == <<gitignoreText, gitignorePrev, ensureCalls>>
scanVars == <<scanFiles, scanSpec, scanPc, hashed, listing, hashVars, ignoreVars>>
syncVars == <<fsVars, handlerVars, pending, obsVars, uiVars, now, accepted, lastEvent>>
vars == <<syncVars, scanVars>>

Range(s) == {s[i] : i \in 1..Len(s)}

\* ------------------------------------------------------- pure helpers

\* calculate_repo_hash on the file system given as arguments.  A missing
\* directory has no files: rglob yields nothing and the digest is that of
\* the empty stream.
HashOf(ex, t, g) == IF ex THEN <<t, g>> ELSE EmptyHash

calculate_repo_hash(r) == HashOf(exists[r], tree[r], gitignore[r])

\* generate_markdown: the document is determined by the listed tree
Render(r) == <<"doc", tree[r], gitignore[r]>>

\* read_hash_from_metadata: None when the stream cannot be read
read_hash_from_metadata(r) == IF exists[r] THEN sidecar[r] ELSE None

ensure_align_toggles(g) == IF g = "entry" THEN "plain" ELSE "entry"
\* ensure_align_in_gitignore: create the file or append the entry
ensure_align_in_gitignore(g) == "entry"

\* RepositoryListUI.update_repo_list: update_repo_status of every listed
\* repository recomputes handler.current_hash when the widget exists
update_repo_list(cur, obs, entries, lst) ==
    [r \in Repos |->
        IF r \in Range(lst) /\ r \in entries /\ r \in obs
        THEN calculate_repo_hash(r) ELSE cur[r]]

\* RepositoryListUI.update_repo_status, lines 640-646
StatusOf(hasHandler, refreshing, cur, saved) ==
    IF hasHandler /\ refreshing THEN "UPDATING"
    ELSE IF hasHandler /\ cur = saved THEN "UP_TO_DATE"
    ELSE "NEEDS_UPDATE"

\* the status update_repo_status shows for r when it runs in this state
update_repo_status(r) ==
    StatusOf(r \in observers, is_refreshing[r],
             IF r \in observers THEN calculate_repo_hash(r) ELSE current_hash[r],
             saved_hash[r])

\* refresh_repo line 399: nothing changed and the handler is in sync
NoChange(p, h) ==
    /\ p \in observers
    /\ current_hash[p] = h
    /\ current_hash[p] = saved_hash[p]

\* the observer of p queues an event of kind k
Notify(pend, p, k) ==
    IF p \in observers THEN [pend EXCEPT ![p] = @ \cup {k}] ELSE pend

\* ------------------------------------------ ignore rules and tree walks
\* A file name is a sequence of tokens whose concatenation is the string,
\* a relative path is a sequence of names, a tree is the set of the
\* relative paths of its files.

\* ignore_patterns.py lines 4-39, "*" being the first token of a glob
DEFAULT_IGNORES ==
    { <<"__pycache__">>, <<"__init__", ".py">>, <<".pytest_cache">>, <<".coverage">>,
      <<".venv">>, <<"venv">>, <<"env">>, <<".env">>,
      <<"*", ".pyc">>, <<"*", ".pyo">>, <<"*", ".pyd">>,
      <<"node_modules">>, <<"package-lock", ".json">>, <<"yarn", ".lock">>, <<".npm">>,
      <<".idea">>, <<".vscode">>, <<".vs">>, <<"*", ".swp">>, <<".DS_Store">>,
      <<"Thumbs", ".db">>,
      <<"build">>, <<"dist">>, <<"*", ".egg-info">>,
      <<".git">> }

AlignName == <<"Align.md">>
DirNames == { <<"sub">>, <<"node_modules">> }
FileNames == { <<"a", ".txt">>, <<"x", ".pyc">>, AlignName }
\* the lines a .gitignore of the model may hold: plain names
PatternNames == { <<"sub">>, <<"a", ".txt">>, AlignName }

\* str.endswith on token sequences
EndsWith(s, suffix) ==
    /\ Len(suffix) <= Len(s)
    /\ SubSeq(s, Len(s) - Len(suffix) + 1, Len(s)) = suffix

\* PathSpec.match_file for the patterns load_gitignore builds from plain
\* names (the name and "**/" + name): a path matches when one of its
\* components is the name, so a directory pattern covers what is below it
match_file(spec, rel_path) == \E i \in 1..Len(rel_path) : rel_path[i] \in spec

\* ignore_patterns.py should_ignore, lines 41-66
should_ignore(entry_name, rel_path, gitignore_spec) ==
    \/ \E pattern \in DEFAULT_IGNORES :
          IF Head(pattern) = "*"
          THEN EndsWith(entry_name, Tail(pattern))
          ELSE entry_name = pattern
    \/ match_file(gitignore_spec, rel_path)

\* calculate_repo_hash lines 145-157: the files fed to the hash
HashedFiles(fs, gitignore_spec) ==
    { f \in fs : ~(f = <<AlignName>>
                   \/ should_ignore(f[Len(f)], f, gitignore_spec)) }

\* a file name of 52 characters
LongName == <<"a_module_with_a_rather_long_descriptive_file_name", ".py">>

\* the order of Python's sorted() on the names of the model
AsciiOrder ==
    << AlignName, <<"a">>, <<"a", ".txt">>, LongName, <<"lib">>,
       <<"node_modules">>, <<"sub">>, <<"x", ".pyc">> >>
Rank(n) == CHOOSE i \in 1..Len(AsciiOrder) : AsciiOrder[i] = n

RECURSIVE SortedDesc(_)
SortedDesc(S) ==
    IF S = {} THEN <<>>
    ELSE LET m == CHOOSE x \in S : \A y \in S : Rank(x) >= Rank(y)
         IN <<m>> \o SortedDesc(S \ {m})

RECURSIVE SortedSeq(_)
\* sorted() of lines 40 and 46 on a set of names
SortedSeq(S) ==
    IF S = {} THEN <<>>
    ELSE LET m == CHOOSE x \in S : \A y \in S : Rank(x) <= Rank(y)
         IN <<m>> \o SortedSeq(S \ {m})

IsPrefix(p, f) == Len(p) < Len(f) /\ SubSeq(f, 1, Len(p)) = p

RECURSIVE collect_entries(_, _, _, _)
RECURSIVE CollectDirs(_, _, _, _, _)
\* generate_markdown.collect_entries, lines 19-51: the entries below the
\* directory cur in the order they are listed
collect_entries(cur, level, fs, gitignore_spec) ==
    LET below == { f \in fs : IsPrefix(cur, f) }
        kept == { f \in below :
                    ~should_ignore(f[Len(cur) + 1], SubSeq(f, 1, Len(cur) + 1),
                                   gitignore_spec) }
        dirs == { f[Len(cur) + 1] : f \in { g \in kept : Len(g) > Len(cur) + 1 } }
        files == { f[Len(cur) + 1] : f \in { g \in kept : Len(g) = Len(cur) + 1 } }
    IN CollectDirs(SortedSeq(dirs), cur, level, fs, gitignore_spec)
       \o [i \in 1..Cardinality(files) |->
             [entry |-> SortedSeq(files)[i], path |-> Append(cur, SortedSeq(files)[i]),
              level |-> level, is_dir |-> FALSE]]

\* lines 40-43: each directory, followed by what is below it
CollectDirs(ds, cur, level, fs, gitignore_spec) ==
    IF ds = <<>> THEN <<>>
    ELSE << [entry |-> Head(ds), path |-> Append(cur, Head(ds)),
             level |-> level, is_dir |-> TRUE] >>
         \o collect_entries(Append(cur, Head(ds)), level + 1, fs, gitignore_spec)
         \o CollectDirs(Tail(ds), cur, level, fs, gitignore_spec)

\* lines 41 and 46: indent = "    " * level
MarkdownIndent(level) == [i \in 1..(4 * level) |-> " "]

\* len(entry): the characters of a name
RECURSIVE NameLen(_)
NameLen(n) == IF n = <<>> THEN 0 ELSE Len(Head(n)) + NameLen(Tail(n))

\* lines 20-21: the largest indent_level collect_entries was called with,
\* once for the root (level 0) and once for every listed directory
max_indent_level(entries) ==
    LET called == {0} \cup { entries[i].level + 1 :
                        i \in { j \in 1..Len(entries) : entries[j].is_dir } }
    IN  CHOOSE x \in called : \A y \in called : y <= x

\* line 58: max_width = 50 + (max_indent_level * 4)
max_width(entries) == BaseWidth + max_indent_level(entries) * 4

\* line 79: current_width = len(indent) + 2 + len(entry)
current_width(e) == Len(MarkdownIndent(e.level)) + 2 + NameLen(e.entry)

\* line 80: padding = " " * (max_width - current_width); the product of
\* a str and a number below 1 is the empty string
padding(e, entries) ==
    [i \in 1..(max_width(entries) - current_width(e)) |-> " "]


\* the files generate_markdown lists
ListedFiles(entries) == { entries[i].path : i \in { j \in 1..Len(entries) : ~entries[j].is_dir } }

\* ------------------------------------------- the digest of a tree

\* str(path.relative_to(directory)): the names joined by the separator
RECURSIVE RelPath(_)
RelPath(f) ==
    IF Len(f) = 1 THEN f[1]
    ELSE f[1] \o <<"/">> \o RelPath(Tail(f))

\* the bytes a file can hold, in tokens; they can be bytes that names
\* are made of
ContentTokens == << ".txt", ".pyc", "a" >>

\* path.read_bytes(): version 0 is the empty file
read_bytes(v) == IF v = 0 THEN <<>> ELSE <<ContentTokens[v]>>

\* the order of the relative paths as strings; no directory name of the
\* model is a prefix of another name, so the strings compare name by name
RECURSIVE PathLess(_, _)
PathLess(f, g) ==
    IF f = <<>> THEN g # <<>>
    ELSE IF g = <<>> THEN FALSE
    ELSE IF Head(f) = Head(g) THEN PathLess(Tail(f), Tail(g))
    ELSE Rank(Head(f)) < Rank(Head(g))

Unsorted(files) == files
\* line 163, files.sort(key=lambda x: x[0])
RECURSIVE SortByPath(_)
SortByPath(files) ==
    IF files = <<>> THEN <<>>
    ELSE LET i == CHOOSE j \in 1..Len(files) :
                     \A k \in 1..Len(files) : k = j \/ PathLess(files[j], files[k])
             rest == [k \in 1..(Len(files) - 1) |->
                        IF k < i THEN files[k] ELSE files[k + 1]]
         IN <<files[i]>> \o SortByPath(rest)

\* lines 166-177: the path and the bytes of each file, in order, with
\* nothing between them
RECURSIVE HashStream(_, _)
HashStream(files, bts) ==
    IF files = <<>> THEN <<>>
    ELSE RelPath(Head(files)) \o read_bytes(bts[Head(files)])
         \o HashStream(Tail(files), bts)

\* calculate_repo_hash, lines 133-186, on the tree whose files rglob
\* enumerates in the order walk; sha256 is taken as collision free, so the
\* digest is the stream itself
Digest(walk, bts, gitignore_spec) ==
    LET files == SelectSeq(walk, LAMBDA f :
                    ~(f = <<AlignName>>
                      \/ should_ignore(f[Len(f)], f, gitignore_spec)))
    IN <<"sha256", HashStream(SortByPath(files), bts)>>

\* ------------------------------------------------------- refresh_repo

\* lines 381-401 for path p.  ret: "False", "True" (no-op) or "go"
ScanResult(p) ==
    IF ~exists[p] THEN "False"
    ELSE IF NoChange(p, <<tree[p], ensure_align_in_gitignore(gitignore[p])>>) THEN "True"
    ELSE "go"

ScanHash(p) == <<tree[p], ensure_align_in_gitignore(gitignore[p])>>

\* the effect of lines 387-395 on the file system and the event queue
RefreshScan(p) ==
    /\ gitignore' = IF exists[p]
                    THEN [gitignore EXCEPT ![p] = ensure_align_in_gitignore(@)]
                    ELSE gitignore
    /\ pending' = IF exists[p] /\ gitignore[p] # ensure_align_in_gitignore(gitignore[p])
                  THEN Notify(pending, p, "other") ELSE pending
    /\ UNCHANGED <<exists, tree, alignDoc, sidecar, fault, watchFails>>

\* lines 403-428: does writing Align.md succeed
WriteOk(p) == exists[p] /\ fault[p] # "write"

\* store_hash_in_metadata, lines 188-198: the stream after the call
store_hash_in_metadata(p, h) ==
    IF fault[p] = "sidecar" THEN sidecar[p] ELSE h

\* RepoChangeHandler.update_saved_hash, lines 232-240: the saved hash
update_saved_hash(cur) == cur

\* lines 403-428 for path p with the hash h computed by the scan
RefreshWrite(p, h) ==
    IF WriteOk(p)
    THEN /\ alignDoc' = [alignDoc EXCEPT ![p] = Render(p)]
         /\ sidecar' = [sidecar EXCEPT ![p] = store_hash_in_metadata(p, h)]
         /\ pending' = Notify(pending, p, "align")
         /\ IF p \in observers
            THEN /\ current_hash' = [current_hash EXCEPT ![p] = h]
                 /\ saved_hash' = [saved_hash EXCEPT ![p] = update_saved_hash(h)]
            ELSE UNCHANGED <<current_hash, saved_hash>>
    ELSE UNCHANGED <<alignDoc, sidecar, pending, current_hash, saved_hash>>

\* ------------------------------------------ observer thread of repo r

\* lines 244-247: events on Align.md and on temporary files are skipped
FilteredAlignOnly(k) == k = "align"
Filtered(k) == k \in {"align", "tmp"}
\* lines 250-254: the event passes when the time since last_refresh is not
\* below the cooldown
NoEvent == [at |-> 0, close |-> FALSE]
\* the event now handed to the handler of r comes less than one cooldown
\* after the event before it
InStream(r) == lastEvent[r].at # 0 /\ now - lastEvent[r].at < REFRESH_COOLDOWN

GateOpenLate(r) == now - last_refresh[r] > REFRESH_COOLDOWN
GateOpenAlways(r) == TRUE
GateOpenWhenQuiet(r) == now - last_refresh[r] >= REFRESH_COOLDOWN /\ ~InStream(r)
GateOpen(r) == now - last_refresh[r] >= REFRESH_COOLDOWN

\* RepoChangeHandler.on_any_event, lines 242-260, up to the call of
\* refresh_repo
OnAnyEvent(r, k) ==
    /\ r \in observers /\ obsPc[r] = "idle" /\ k \in pending[r]
    /\ uiPc # "exited"
    /\ pending' = [pending EXCEPT ![r] = @ \ {k}]
    /\ lastEvent' = [lastEvent EXCEPT ![r] = [at |-> now, close |-> InStream(r)]]
    /\ IF ~Filtered(k) /\ GateOpen(r)
       THEN /\ last_refresh' = [last_refresh EXCEPT ![r] = now]
            /\ is_refreshing' = [is_refreshing EXCEPT ![r] = TRUE]
            /\ current_hash' = update_repo_list(current_hash, observers, uiEntries, repos)
            /\ obsPc' = [obsPc EXCEPT ![r] = "scan"]
            /\ accepted' = [accepted EXCEPT ![r] = Append(@, now)]
       ELSE UNCHANGED <<last_refresh, is_refreshing, current_hash, obsPc, accepted>>
    /\ UNCHANGED <<fsVars, observers, sessions, saved_hash, obsHash, obsRet, uiVars, now, scanVars>>

\* refresh_repo lines 381-401 on the observer thread
ObsScan(r) ==
    /\ obsPc[r] = "scan"
    /\ RefreshScan(r)
    /\ obsHash' = [obsHash EXCEPT ![r] = IF ScanResult(r) = "go" THEN ScanHash(r) ELSE @]
    /\ obsRet' = [obsRet EXCEPT ![r] = ScanResult(r)]
    /\ obsPc' = [obsPc EXCEPT ![r] = IF ScanResult(r) = "go" THEN "write" ELSE "finish"]
    /\ UNCHANGED <<handlerVars, uiVars, now, accepted, lastEvent, scanVars>>

\* refresh_repo lines 403-432 on the observer thread
ObsWrite(r) ==
    /\ obsPc[r] = "write"
    /\ RefreshWrite(r, obsHash[r])
    /\ obsRet' = [obsRet EXCEPT ![r] = IF WriteOk(r) THEN "True" ELSE "False"]
    /\ obsPc' = [obsPc EXCEPT ![r] = "finish"]
    /\ UNCHANGED <<exists, tree, gitignore, fault, watchFails, observers, sessions,
                   last_refresh, is_refreshing, obsHash, uiVars, now, accepted, lastEvent, scanVars>>

ObsFinishKeepsFlag(r) ==
    /\ obsPc[r] = "finish"
    /\ current_hash' = update_repo_list(current_hash, observers, uiEntries, repos)
    /\ obsPc' = [obsPc EXCEPT ![r] = "idle"]
    /\ obsHash' = [obsHash EXCEPT ![r] = None]
    /\ obsRet' = [obsRet EXCEPT ![r] = "none"]
    /\ UNCHANGED <<fsVars, observers, sessions, saved_hash, last_refresh, is_refreshing,
                   pending, uiVars, now, accepted, lastEvent, scanVars>>

\* on_any_event lines 264-266 after refresh_repo returned
ObsFinish(r) ==
    /\ obsPc[r] = "finish"
    /\ is_refreshing' = [is_refreshing EXCEPT ![r] = FALSE]
    /\ current_hash' = update_repo_list(current_hash, observers, uiEntries, repos)
    /\ obsPc' = [obsPc EXCEPT ![r] = "idle"]
    /\ obsHash' = [obsHash EXCEPT ![r] = None]
    /\ obsRet' = [obsRet EXCEPT ![r] = "none"]
    /\ UNCHANGED <<fsVars, observers, sessions, saved_hash, last_refresh, pending,
                   uiVars, now, accepted, lastEvent, scanVars>>

\* ------------------------------------------------------- RepoWatcher

\* RepoChangeHandler.__init__, lines 214-225, and RepoWatcher.watch_repo,
\* lines 277-289, for a path not watched yet.  st holds the registry and
\* the handler fields.
NewHandler(st, r) ==
    [st EXCEPT !.observers = @ \cup {r},
               !.sessions[r] = @ + 1,
               !.current_hash[r] = calculate_repo_hash(r),
               !.saved_hash[r] = read_hash_from_metadata(r),
               !.last_refresh[r] = 0,
               !.is_refreshing[r] = FALSE]

\* does watch_repo(r) raise (handler construction or observer.start)
WatchRaises(obs, r) == r \notin obs /\ r \in watchFails

watch_repo_unguarded(st, r) == NewHandler(st, r)
\* RepoWatcher.watch_repo, lines 277-289: nothing for a watched path
watch_repo(st, r) == IF r \in st.observers THEN st ELSE NewHandler(st, r)

HandlerState ==
    [observers |-> observers, current_hash |-> current_hash,
     saved_hash |-> saved_hash, last_refresh |-> last_refresh,
     is_refreshing |-> is_refreshing, sessions |-> sessions]

SetHandlerState(st) ==
    /\ observers' = st.observers
    /\ current_hash' = st.current_hash
    /\ saved_hash' = st.saved_hash
    /\ last_refresh' = st.last_refresh
    /\ is_refreshing' = st.is_refreshing
    /\ sessions' = st.sessions

\* RepoWatcher.unwatch_repo, lines 291-295: the registered observer is
\* stopped; the fields of a handler that was dropped from the registry
DropHandler(st, r) ==
    [st EXCEPT !.observers = @ \ {r},
               !.sessions[r] = IF r \in st.observers THEN @ - 1 ELSE @,
               !.current_hash[r] = None,
               !.saved_hash[r] = None,
               !.last_refresh[r] = 0,
               !.is_refreshing[r] = FALSE]

\* ----------------------------------------------------------- main()

RECURSIVE WatchAll(_, _, _)
\* main lines 761-762: watch_repo of every tracked repository in order;
\* the first one that raises ends the loop (st.raised)
WatchAll(st, lst, i) ==
    IF i > Len(lst) THEN [st |-> st, raised |-> FALSE]
    ELSE IF WatchRaises(st.observers, lst[i]) THEN [st |-> st, raised |-> TRUE]
    ELSE WatchAll(watch_repo(st, lst[i]), lst, i + 1)

RECURSIVE DropAll(_, _)
\* RepoWatcher.stop_all, lines 297-302
DropAll(st, rs) ==
    IF rs = {} THEN st
    ELSE LET r == CHOOSE x \in rs : TRUE IN DropAll(DropHandler(st, r), rs \ {r})

\* main lines 758-771: start the watch sessions and build the list; an
\* exception of watch_repo is re-raised and the finally clause stops all
Startup ==
    /\ uiPc = "startup"
    /\ LET w == WatchAll(HandlerState, repos, 1) IN
        IF w.raised
        THEN /\ SetHandlerState(DropAll(w.st, w.st.observers))
             /\ uiPc' = "exited"
             /\ UNCHANGED uiEntries
        ELSE /\ SetHandlerState(w.st)
             /\ uiPc' = "idle"
             /\ uiEntries' = Range(repos)
    /\ UNCHANGED <<fsVars, pending, obsVars, repos, uiOp, uiList, uiIdx, uiCount,
                   uiHash, uiRet, statusMsg, now, accepted, lastEvent, scanVars>>

\* ------------------------------------------- _refresh_repositories

\* lines 451-455: mark the listed repositories that have a handler
MarkRefreshing(flags, obs, lst) ==
    [r \in Repos |-> IF r \in Range(lst) /\ r \in obs THEN TRUE ELSE flags[r]]

\* _refresh_repositories lines 442-457 with the list lst, on the handler
\* state st
BulkBegin(st, lst) ==
    IF lst = <<>>
    THEN /\ SetHandlerState(st)
         /\ statusMsg' = <<"nothing">>
         /\ UNCHANGED <<uiPc, uiOp, uiList, uiIdx, uiCount>>
    ELSE /\ SetHandlerState(
              [st EXCEPT !.is_refreshing = MarkRefreshing(@, st.observers, lst),
                         !.current_hash = update_repo_list(@, st.observers, uiEntries, repos)])
         /\ uiPc' = "scan"
         /\ uiOp' = "bulk"
         /\ uiList' = lst
         /\ uiIdx' = 1
         /\ uiCount' = 0
         /\ UNCHANGED statusMsg

\* the tracked repositories of sel in the order of the config file
Selected(sel) == SelectSeq(repos, LAMBDA r : r \in sel)

\* refresh_selected_repos, lines 536-545
RefreshSelected(sel) ==
    /\ uiPc = "idle"
    /\ sel \subseteq (Range(repos) \cap uiEntries)
    /\ BulkBegin(HandlerState, Selected(sel))
    /\ UNCHANGED <<fsVars, pending, obsVars, repos, uiEntries, uiHash, uiRet,
                   now, accepted, lastEvent, scanVars>>

\* the repository the UI thread is refreshing
UiRepo == uiList[uiIdx]

\* refresh_repo lines 381-401 on the UI thread
UiScan ==
    /\ uiPc = "scan"
    /\ RefreshScan(UiRepo)
    /\ uiHash' = IF ScanResult(UiRepo) = "go" THEN ScanHash(UiRepo) ELSE uiHash
    /\ uiRet' = ScanResult(UiRepo)
    /\ uiPc' = IF ScanResult(UiRepo) = "go" THEN "write" ELSE "after"
    /\ UNCHANGED <<handlerVars, obsVars, repos, uiEntries, uiOp, uiList, uiIdx,
                   uiCount, statusMsg, now, accepted, lastEvent, scanVars>>

\* refresh_repo lines 403-432 on the UI thread
UiWrite ==
    /\ uiPc = "write"
    /\ RefreshWrite(UiRepo, uiHash)
    /\ uiRet' = IF WriteOk(UiRepo) THEN "True" ELSE "False"
    /\ uiPc' = "after"
    /\ UNCHANGED <<exists, tree, gitignore, fault, watchFails, observers, sessions,
                   last_refresh, is_refreshing, obsVars, repos, uiEntries, uiOp,
                   uiList, uiIdx, uiCount, uiHash, statusMsg, now, accepted, lastEvent, scanVars>>

\* lines 469-473: the handler of the repository just processed
AfterRepo(st, r) ==
    IF r \in st.observers
    THEN [st EXCEPT !.is_refreshing[r] = FALSE,
                    !.current_hash[r] = calculate_repo_hash(r),
                    !.last_refresh[r] = now]
    ELSE st

\* lines 465-483: count the result, update the handler and the widgets,
\* go on with the next repository or report "Realigned n/m"
BulkAfter ==
    /\ uiPc = "after" /\ uiOp = "bulk"
    /\ LET n == uiCount + (IF uiRet = "True" THEN 1 ELSE 0)
           last == uiIdx = Len(uiList)
           st1 == AfterRepo(HandlerState, UiRepo)
           st2 == IF last \/ uiIdx % UpdatePeriod = 0
                  THEN [st1 EXCEPT !.current_hash =
                            update_repo_list(@, st1.observers, uiEntries, repos)]
                  ELSE st1
       IN /\ SetHandlerState(st2)
          /\ IF last
             THEN /\ statusMsg' = <<n, Len(uiList)>>
                  /\ uiPc' = "idle"
                  /\ uiOp' = "none"
                  /\ uiList' = <<>>
                  /\ uiIdx' = 0
                  /\ uiCount' = 0
             ELSE /\ uiIdx' = uiIdx + 1
                  /\ uiCount' = n
                  /\ uiPc' = "scan"
                  /\ UNCHANGED <<statusMsg, uiOp, uiList>>
    /\ uiHash' = None
    /\ uiRet' = "none"
    /\ UNCHANGED <<fsVars, pending, obsVars, repos, uiEntries,
                   now, accepted, lastEvent, scanVars>>

\* lines 469-472 and 485-488: a directory of the repository is removed
\* while the calculate_repo_hash of line 472 walks it; rglob (line 145,
\* outside every try) raises out of the loop and the except clause of
\* _refresh_repositories reports the error and returns
BulkRaise ==
    /\ uiPc = "after" /\ uiOp = "bulk"
    /\ UiRepo \in observers /\ exists[UiRepo]
    /\ \E v \in Versions \ {tree[UiRepo]} : tree' = [tree EXCEPT ![UiRepo] = v]
    /\ pending' = Notify(pending, UiRepo, "other")
    /\ is_refreshing' = [is_refreshing EXCEPT ![UiRepo] = FALSE]
    /\ statusMsg' = <<"error">>
    /\ uiPc' = "idle"
    /\ uiOp' = "none"
    /\ uiList' = <<>>
    /\ uiIdx' = 0
    /\ uiCount' = 0
    /\ uiHash' = None
    /\ uiRet' = "none"
    /\ UNCHANGED <<exists, gitignore, alignDoc, sidecar, fault, watchFails,
                   observers, sessions, current_hash, saved_hash, last_refresh, obsVars,
                   repos, uiEntries, now, accepted, lastEvent, scanVars>>

\* ------------------------------------------------- refresh_all_repos

RECURSIVE RefreshAllLoop(_, _, _, _)
\* refresh_all_repos lines 497-517: the repositories to update (todo); an
\* unwatched one is listed and watched, a watched one is listed when its
\* fresh hash differs from the saved hash
RefreshAllLoop(st, lst, i, todo) ==
    IF i > Len(lst) THEN [st |-> st, todo |-> todo, raised |-> FALSE]
    ELSE LET r == lst[i] IN
        IF r \notin st.observers
        THEN IF WatchRaises(st.observers, r)
             THEN [st |-> st, todo |-> Append(todo, r), raised |-> TRUE]
             ELSE RefreshAllLoop(watch_repo(st, r), lst, i + 1, Append(todo, r))
        ELSE LET h == calculate_repo_hash(r)
                 st1 == [st EXCEPT !.current_hash[r] = h]
             IN IF h # st.saved_hash[r]
                THEN RefreshAllLoop(st1, lst, i + 1, Append(todo, r))
                ELSE RefreshAllLoop([st1 EXCEPT !.last_refresh[r] = now],
                                    lst, i + 1, todo)

\* refresh_all_repos, lines 490-534
RefreshAll ==
    /\ uiPc = "idle"
    /\ LET w == RefreshAllLoop(HandlerState, repos, 1, <<>>)
           st == [w.st EXCEPT !.current_hash =
                       update_repo_list(@, w.st.observers, uiEntries, repos)]
       IN IF w.raised
          THEN /\ SetHandlerState(w.st)
               /\ statusMsg' = <<"error">>
               /\ UNCHANGED <<uiPc, uiOp, uiList, uiIdx, uiCount>>
          ELSE IF w.todo # <<>>
          THEN BulkBegin(st, w.todo)
          ELSE /\ SetHandlerState(st)
               /\ statusMsg' = <<"uptodate">>
               /\ UNCHANGED <<uiPc, uiOp, uiList, uiIdx, uiCount>>
    /\ UNCHANGED <<fsVars, pending, obsVars, repos, uiEntries, uiHash, uiRet,
                   now, accepted, lastEvent, scanVars>>

\* ---------------------------------- add_repository, remove_repository

\* add_repository lines 307-320: track the directory and refresh it
AddRepository(p) ==
    /\ uiPc = "idle"
    /\ exists[p] /\ p \notin Range(repos)
    /\ repos' = Append(repos, p)
    /\ uiPc' = "scan"
    /\ uiOp' = "add"
    /\ uiList' = <<p>>
    /\ uiIdx' = 1
    /\ UNCHANGED <<fsVars, handlerVars, pending, obsVars, uiEntries, uiCount,
                   uiHash, uiRet, statusMsg, now, accepted, lastEvent, scanVars>>

\* add_repository lines 321-325: watch the repository, create its widgets;
\* an exception of watch_repo is no ConfigError and leaves the callback
AddAfter ==
    /\ uiPc = "after" /\ uiOp = "add"
    /\ IF WatchRaises(observers, UiRepo)
       THEN UNCHANGED <<handlerVars, uiEntries>>
       ELSE /\ SetHandlerState(watch_repo(HandlerState, UiRepo))
            /\ uiEntries' = uiEntries \cup {UiRepo}
    /\ uiPc' = "idle"
    /\ uiOp' = "none"
    /\ uiList' = <<>>
    /\ uiIdx' = 0
    /\ uiHash' = None
    /\ uiRet' = "none"
    /\ UNCHANGED <<fsVars, pending, obsVars, repos, uiCount,
                   statusMsg, now, accepted, lastEvent, scanVars>>

\* remove_repository lines 331-345 with RepoWatcher.unwatch_repo, lines
\* 291-295: observer.join() returns once the observer thread has left
\* the handler
observer_join_nowait(r) == TRUE
\* observer.stop() and observer.join(), lines 293-294: the call returns
\* when the observer thread is not inside the handler
observer_join(r) == r \in observers => obsPc[r] = "idle"

RemoveRepository(r) ==
    /\ uiPc = "idle"
    /\ r \in Range(repos) /\ r \in uiEntries
    /\ observer_join(r)
    /\ repos' = SelectSeq(repos, LAMBDA x : x # r)
    /\ SetHandlerState(DropHandler(HandlerState, r))
    /\ pending' = [pending EXCEPT ![r] = {}]
    /\ accepted' = [accepted EXCEPT ![r] = <<>>]
    /\ lastEvent' = [lastEvent EXCEPT ![r] = NoEvent]
    /\ uiEntries' = uiEntries \ {r}
    /\ UNCHANGED <<fsVars, obsVars, uiPc, uiOp, uiList, uiIdx, uiCount, uiHash,
                   uiRet, statusMsg, now, scanVars>>

\* ------------------------------------------------------- environment

\* a file of the tree is written: one that is hashed and whose path passes
\* the handler's filter ("other") or ends with ".tmp" ("tmp")
EditFile(r, k) ==
    /\ exists[r]
    /\ \E v \in Versions \ {tree[r]} : tree' = [tree EXCEPT ![r] = v]
    /\ pending' = Notify(pending, r, k)
    /\ UNCHANGED <<exists, gitignore, alignDoc, sidecar, fault, watchFails,
                   handlerVars, obsVars, uiVars, now, accepted, lastEvent, scanVars>>

\* a file that calculate_repo_hash skips is written
EditIgnored(r) ==
    /\ exists[r] /\ r \in observers
    /\ "other" \notin pending[r]
    /\ pending' = Notify(pending, r, "other")
    /\ UNCHANGED <<fsVars, handlerVars, obsVars, uiVars, now, accepted, lastEvent, scanVars>>

\* as EditIgnored, the event keeping the mark of where it comes from: a
\* path below a built-in ignored directory or matched by .gitignore,
\* which ends neither with Align.md nor with .tmp
EditExcluded(r) ==
    /\ exists[r] /\ r \in observers
    /\ "excluded" \notin pending[r]
    /\ pending' = Notify(pending, r, "excluded")
    /\ UNCHANGED <<fsVars, handlerVars, obsVars, uiVars, now, accepted, lastEvent, scanVars>>

\* Align.md is edited from outside
EditAlign(r) ==
    /\ exists[r] /\ alignDoc[r] \notin {NoDoc, EditedDoc}
    /\ alignDoc' = [alignDoc EXCEPT ![r] = EditedDoc]
    /\ pending' = Notify(pending, r, "align")
    /\ UNCHANGED <<exists, tree, gitignore, sidecar, fault, watchFails,
                   handlerVars, obsVars, uiVars, now, accepted, lastEvent, scanVars>>

\* the directory is deleted
DeleteDir(r) ==
    /\ exists[r]
    /\ exists' = [exists EXCEPT ![r] = FALSE]
    /\ tree' = [tree EXCEPT ![r] = 0]
    /\ gitignore' = [gitignore EXCEPT ![r] = "absent"]
    /\ alignDoc' = [alignDoc EXCEPT ![r] = NoDoc]
    /\ sidecar' = [sidecar EXCEPT ![r] = None]
    /\ pending' = Notify(pending, r, "other")
    /\ UNCHANGED <<fault, watchFails, handlerVars, obsVars, uiVars, now, accepted, lastEvent, scanVars>>

Tick ==
    /\ now < MaxTime
    /\ now' = now + 1
    /\ UNCHANGED <<fsVars, handlerVars, pending, obsVars, uiVars, accepted, lastEvent, scanVars>>

\* ---------------------------------------------------- specifications

\* the process before main() runs: nothing is watched; dirs are the
\* directories on disk, lst is the config file, fts the faults and wfs the
\* failing watches the file system may have
InitWith(dirs, lst, fts, wfs) ==
    /\ exists = [r \in Repos |-> r \in dirs]
    /\ tree = [r \in Repos |-> 0]
    /\ gitignore = [r \in Repos |-> IF r \in dirs THEN "plain" ELSE "absent"]
    /\ alignDoc = [r \in Repos |-> NoDoc]
    /\ sidecar = [r \in Repos |-> None]
    /\ fault \in [Repos -> fts]
    /\ \A r \in Repos \ dirs : fault[r] = "none"
    /\ watchFails \in wfs
    /\ observers = {}
    /\ sessions = [r \in Repos |-> 0]
    /\ current_hash = [r \in Repos |-> None]
    /\ saved_hash = [r \in Repos |-> None]
    /\ last_refresh = [r \in Repos |-> 0]
    /\ is_refreshing = [r \in Repos |-> FALSE]
    /\ pending = [r \in Repos |-> {}]
    /\ obsPc = [r \in Repos |-> "idle"]
    /\ obsHash = [r \in Repos |-> None]
    /\ obsRet = [r \in Repos |-> "none"]
    /\ repos = lst
    /\ uiEntries = {}
    /\ uiPc = "startup"
    /\ uiOp = "none"
    /\ uiList = <<>>
    /\ uiIdx = 0
    /\ uiCount = 0
    /\ uiHash = None
    /\ uiRet = "none"
    /\ statusMsg = None
    /\ now = StartTime
    /\ accepted = [r \in Repos |-> <<>>]
    /\ lastEvent = [r \in Repos |-> NoEvent]

\* no tree is being scanned
\* no .gitignore text is followed
NoEnsure ==
    /\ gitignoreText = None
    /\ gitignorePrev = None
    /\ ensureCalls = 0

\* calculate_repo_hash was not called yet
NoHash ==
    /\ scanBytes = [f \in scanFiles |-> 0]
    /\ digest = None
    /\ prevDigest = None
    /\ changed = None

NoScan ==
    /\ scanFiles = {}
    /\ scanSpec = {}
    /\ scanPc = "idle"
    /\ hashed = {}
    /\ listing = <<>>
    /\ NoHash
    /\ NoEnsure

\* one tracked repository, both threads, the file system and the clock
Init == InitWith({1}, <<1>>, Faults, {{}}) /\ NoScan

Next ==
    \/ Startup
    \/ \E r \in Repos, k \in EventKinds : OnAnyEvent(r, k)
    \/ \E r \in Repos : ObsScan(r)
    \/ \E r \in Repos : ObsWrite(r)
    \/ \E r \in Repos : ObsFinish(r)
    \/ \E sel \in SUBSET Repos : RefreshSelected(sel)
    \/ RefreshAll
    \/ UiScan
    \/ UiWrite
    \/ BulkAfter
    \/ \E p \in Repos : AddRepository(p)
    \/ AddAfter
    \/ \E r \in Repos : RemoveRepository(r)
    \/ \E r \in Repos, k \in {"other", "tmp"} : EditFile(r, k)
    \/ \E r \in Repos : EditIgnored(r)
    \/ \E r \in Repos : EditAlign(r)
    \/ \E r \in Repos : DeleteDir(r)
    \/ Tick

Spec == Init /\ [][Next]_vars

\* ------------------------------------------- one scan of one tree

RECURSIVE DirPaths(_)
\* the directories at most d levels below the root
DirPaths(d) ==
    IF d = 0 THEN { <<>> }
    ELSE DirPaths(d - 1) \cup { Append(q, n) : q \in DirPaths(d - 1), n \in DirNames }

FilePaths == { Append(q, n) : q \in DirPaths(MaxDepth), n \in FileNames }

RECURSIVE SubsetsUpTo(_, _)
SubsetsUpTo(S, k) ==
    IF k = 0 THEN { {} }
    ELSE LET prev == SubsetsUpTo(S, k - 1)
         IN prev \cup { T \cup {x} : T \in prev, x \in S }

InitScan ==
    /\ InitWith({}, <<>>, {"none"}, {{}})
    /\ scanFiles \in SubsetsUpTo(FilePaths, MaxFiles)
    /\ scanSpec \in SUBSET PatternNames
    /\ scanPc = "new"
    /\ hashed = {}
    /\ listing = <<>>
    /\ NoHash
    /\ NoEnsure

\* refresh_repo lines 391-405: the tree is walked by calculate_repo_hash
\* and by generate_markdown with the patterns of the same .gitignore
ScanTree ==
    /\ scanPc = "new"
    /\ hashed' = HashedFiles(scanFiles, scanSpec)
    /\ listing' = collect_entries(<<>>, 0, scanFiles, scanSpec)
    /\ scanPc' = "done"
    /\ UNCHANGED <<syncVars, ignoreVars, scanFiles, scanSpec, hashVars>>

NextScan == ScanTree

SpecScan == InitScan /\ [][NextScan]_vars

\* ---- the listing of a tree with several directories at a level ----

ListDirNames == { <<"lib">>, <<"sub">> }

RECURSIVE ListDirs(_)
ListDirs(d) ==
    IF d = 0 THEN { <<>> }
    ELSE ListDirs(d - 1) \cup { Append(q, n) : q \in ListDirs(d - 1), n \in ListDirNames }

ListPaths == { Append(q, n) : q \in ListDirs(MaxDepth), n \in FileNames }

InitList ==
    /\ InitWith({}, <<>>, {"none"}, {{}})
    /\ scanFiles \in SubsetsUpTo(ListPaths, MaxFiles)
    /\ scanSpec \in { {}, { <<"sub">> } }
    /\ scanPc = "new"
    /\ hashed = {}
    /\ listing = <<>>
    /\ NoHash
    /\ NoEnsure

NextList == ScanTree

SpecList == InitList /\ [][NextList]_vars

\* ---- the listing of a tree with short and long file names --------

ColumnPaths ==
    { Append(q, n) : q \in ListDirs(MaxDepth), n \in { <<"a", ".txt">>, LongName } }

InitColumns ==
    /\ InitWith({}, <<>>, {"none"}, {{}})
    /\ scanFiles \in SubsetsUpTo(ColumnPaths, MaxFiles)
    /\ scanSpec = {}
    /\ scanPc = "new"
    /\ hashed = {}
    /\ listing = <<>>
    /\ NoHash
    /\ NoEnsure

NextColumns == ScanTree

SpecColumns == InitColumns /\ [][NextColumns]_vars

\* ------------------------------------ the UI thread, every directory

AllRepos == [i \in 1..NRepos |-> i]

\* every directory is tracked; no observer delivers an event and nothing
\* but the program writes to the file system
InitUi == InitWith(Repos, AllRepos, Faults, SUBSET Repos) /\ NoScan

NextUi ==
    \/ Startup
    \/ \E sel \in SUBSET Repos : RefreshSelected(sel)
    \/ RefreshAll
    \/ UiScan
    \/ UiWrite
    \/ BulkAfter
    \/ \E p \in Repos : AddRepository(p)
    \/ AddAfter
    \/ \E r \in Repos : RemoveRepository(r)

SpecUi == InitUi /\ [][NextUi]_vars

\* ------------------------- bulk refreshes of trees that are changing

\* every directory is tracked and healthy; bulk refreshes run while
\* directories of the trees are removed under the hash walk
InitBulk == InitWith(Repos, AllRepos, {"none"}, {{}}) /\ NoScan

NextBulk ==
    \/ Startup
    \/ \E sel \in SUBSET Repos : RefreshSelected(sel)
    \/ UiScan
    \/ UiWrite
    \/ BulkAfter
    \/ BulkRaise

SpecBulk == InitBulk /\ [][NextBulk]_vars

\* -------------------- refresh_all_repos and a config file that changes

\* a path is written into the config file from outside the program;
\* config.load_repos reads the file on every call
ConfigEdited(p) ==
    /\ uiPc = "idle"
    /\ exists[p] /\ p \notin Range(repos)
    /\ repos' = Append(repos, p)
    /\ UNCHANGED <<fsVars, handlerVars, pending, obsVars, uiEntries, uiPc, uiOp,
                   uiList, uiIdx, uiCount, uiHash, uiRet, statusMsg, now,
                   accepted, lastEvent, scanVars>>

\* a path is taken out of the config file from outside the program
ConfigDropped(p) ==
    /\ uiPc = "idle"
    /\ p \in Range(repos)
    /\ repos' = SelectSeq(repos, LAMBDA x : x # p)
    /\ UNCHANGED <<fsVars, handlerVars, pending, obsVars, uiEntries, uiPc, uiOp,
                   uiList, uiIdx, uiCount, uiHash, uiRet, statusMsg, now,
                   accepted, lastEvent, scanVars>>

\* two healthy directories, the first one tracked; repositories are added,
\* removed, written into the config file, edited and refreshed
InitAll == InitWith({1, 2}, <<1>>, {"none"}, {{}}) /\ NoScan

NextAll ==
    \/ Startup
    \/ RefreshAll
    \/ UiScan
    \/ UiWrite
    \/ BulkAfter
    \/ \E p \in Repos : AddRepository(p)
    \/ AddAfter
    \/ \E r \in Repos : RemoveRepository(r)
    \/ \E p \in Repos : ConfigEdited(p)
    \/ \E r \in Repos : EditFile(r, "other")

SpecAll == InitAll /\ [][NextAll]_vars

\* ------------------------------ the cooldown gate of one repository

\* one healthy repository whose hashed files stay as they are: events,
\* both kinds of refresh and time
InitGate == InitWith({1}, <<1>>, {"none"}, {{}}) /\ NoScan

NextGate ==
    \/ Startup
    \/ \E r \in Repos, k \in EventKinds : OnAnyEvent(r, k)
    \/ \E r \in Repos : ObsScan(r)
    \/ \E r \in Repos : ObsWrite(r)
    \/ \E r \in Repos : ObsFinish(r)
    \/ \E sel \in SUBSET Repos : RefreshSelected(sel)
    \/ RefreshAll
    \/ UiScan
    \/ UiWrite
    \/ BulkAfter
    \/ \E r \in Repos : EditIgnored(r)
    \/ Tick

SpecGate == InitGate /\ [][NextGate]_vars

\* ---- the fingerprint of a tree before and after one change -------

HashPaths ==
    { << <<"a", ".txt">> >>, << <<"x", ".pyc">> >>, << AlignName >>,
      << <<"sub">>, <<"a", ".txt">> >>, << <<"node_modules">>, <<"a", ".txt">> >> }

\* the orders in which a walk can enumerate the files S
Walks(S) == { q \in [1..Cardinality(S) -> S] : Range(q) = S }

InitHash ==
    /\ InitWith({}, <<>>, {"none"}, {{}})
    /\ scanFiles \in SubsetsUpTo(HashPaths, MaxFiles)
    /\ scanSpec \in { {}, { <<"sub">> } }
    /\ scanBytes \in [scanFiles -> Versions]
    /\ scanPc = "new"
    /\ hashed = {}
    /\ listing = <<>>
    /\ digest = None
    /\ prevDigest = None
    /\ changed = None
    /\ NoEnsure

\* calculate_repo_hash(directory), the walk enumerating in any order
HashTree ==
    /\ scanPc \in {"new", "changed"}
    /\ \E walk \in Walks(scanFiles) :
          digest' = Digest(walk, scanBytes, scanSpec)
    /\ prevDigest' = digest
    /\ hashed' = HashedFiles(scanFiles, scanSpec)
    /\ scanPc' = IF scanPc = "new" THEN "hashed" ELSE "rehashed"
    /\ UNCHANGED <<syncVars, ignoreVars, scanFiles, scanSpec, listing, scanBytes, changed>>

\* the bytes of one file are modified
ModifyFile(f) ==
    /\ scanPc = "hashed" /\ f \in scanFiles
    /\ \E v \in Versions \ {scanBytes[f]} :
          scanBytes' = [scanBytes EXCEPT ![f] = v]
    /\ changed' = f
    /\ scanPc' = "changed"
    /\ UNCHANGED <<syncVars, ignoreVars, scanFiles, scanSpec, hashed, listing, digest, prevDigest>>

\* one file is added
AddFile(f) ==
    /\ scanPc = "hashed" /\ f \in HashPaths \ scanFiles
    /\ scanFiles' = scanFiles \cup {f}
    /\ \E v \in Versions :
          scanBytes' = [g \in scanFiles \cup {f} |-> IF g = f THEN v ELSE scanBytes[g]]
    /\ changed' = f
    /\ scanPc' = "changed"
    /\ UNCHANGED <<syncVars, ignoreVars, scanSpec, hashed, listing, digest, prevDigest>>

\* one file is removed
RemoveFile(f) ==
    /\ scanPc = "hashed" /\ f \in scanFiles
    /\ scanFiles' = scanFiles \ {f}
    /\ scanBytes' = [g \in scanFiles \ {f} |-> scanBytes[g]]
    /\ changed' = f
    /\ scanPc' = "changed"
    /\ UNCHANGED <<syncVars, ignoreVars, scanSpec, hashed, listing, digest, prevDigest>>

NextHash ==
    \/ HashTree
    \/ \E f \in HashPaths : ModifyFile(f)
    \/ \E f \in HashPaths : AddFile(f)
    \/ \E f \in HashPaths : RemoveFile(f)

SpecHash == InitHash /\ [][NextHash]_vars

\* ---- the fingerprint of a tree before and after a rename ----------

StreamPaths ==
    { << <<"a">> >>, << <<"a", ".txt">> >>,
      << <<"sub">>, <<"a">> >>, << <<"sub">>, <<"a", ".txt">> >> }

InitStream ==
    /\ InitWith({}, <<>>, {"none"}, {{}})
    /\ scanFiles \in SubsetsUpTo(StreamPaths, MaxFiles)
    /\ scanSpec = {}
    /\ scanBytes \in [scanFiles -> Versions]
    /\ scanPc = "new"
    /\ hashed = {}
    /\ listing = <<>>
    /\ digest = None
    /\ prevDigest = None
    /\ changed = None
    /\ NoEnsure

\* the file f gets the name g, with the bytes it had or with others
MoveFile(f, g) ==
    /\ scanPc = "hashed" /\ f \in scanFiles /\ g \in StreamPaths \ scanFiles
    /\ scanFiles' = (scanFiles \ {f}) \cup {g}
    /\ \E v \in Versions :
          scanBytes' = [h \in (scanFiles \ {f}) \cup {g} |->
                          IF h = g THEN v ELSE scanBytes[h]]
    /\ changed' = g
    /\ scanPc' = "changed"
    /\ UNCHANGED <<syncVars, ignoreVars, scanSpec, hashed, listing, digest, prevDigest>>

NextStream ==
    \/ HashTree
    \/ \E f \in StreamPaths, g \in StreamPaths : MoveFile(f, g)

SpecStream == InitStream /\ [][NextStream]_vars

\* ---- the text of .gitignore over successive refreshes ------------
\* A text is a sequence of tokens: "\n" is the line break, any other
\* token is a piece of a line.

GitignoreTokens == { "Align.md", "x", "# c", "\n" }

RECURSIVE TextsUpTo(_)
TextsUpTo(n) ==
    IF n = 0 THEN { <<>> }
    ELSE TextsUpTo(n - 1)
         \cup { Append(t, c) : t \in { u \in TextsUpTo(n - 1) : Len(u) = n - 1 },
                               c \in GitignoreTokens }

\* content.split('\n')
RECURSIVE Split(_, _)
Split(text, line) ==
    IF text = <<>> THEN <<line>>
    ELSE IF Head(text) = "\n" THEN <<line>> \o Split(Tail(text), <<>>)
    ELSE Split(Tail(text), Append(line, Head(text)))

HasAlignToken(content) == \E i \in 1..Len(content) : content[i] = "Align.md"
\* line 364, align_entry in content.split('\n')
HasAlignLine(content) ==
    \E i \in 1..Len(Split(content, <<>>)) : Split(content, <<>>)[i] = <<"Align.md">>

\* ensure_align_in_gitignore, lines 351-377, on the text of the file
ensure_align_text(content) ==
    IF content = None
    THEN <<"# Created by Align", "\n", "Align.md", "\n">>
    ELSE IF HasAlignLine(content) THEN content
    ELSE content
         \o (IF content # <<>> /\ content[Len(content)] = "\n" THEN <<>> ELSE <<"\n">>)
         \o <<"# Added by Align", "\n", "Align.md", "\n">>

\* the state of .gitignore the other specifications keep of a text
GitignoreStateOf(content) ==
    IF content = None THEN "absent"
    ELSE IF HasAlignLine(content) THEN "entry"
    ELSE "plain"

InitIgnore ==
    /\ InitWith({}, <<>>, {"none"}, {{}})
    /\ scanFiles = {} /\ scanSpec = {} /\ scanPc = "idle"
    /\ hashed = {} /\ listing = <<>>
    /\ NoHash
    /\ gitignoreText \in {None} \cup TextsUpTo(MaxTokens)
    /\ gitignorePrev = None
    /\ ensureCalls = 0

\* refresh_repo line 389
EnsureAlign ==
    /\ ensureCalls < 2
    /\ gitignorePrev' = gitignoreText
    /\ gitignoreText' = ensure_align_text(gitignoreText)
    /\ ensureCalls' = ensureCalls + 1
    /\ UNCHANGED <<syncVars, scanFiles, scanSpec, scanPc, hashed, listing, hashVars>>

NextIgnore == EnsureAlign

SpecIgnore == InitIgnore /\ [][NextIgnore]_vars

\* ---- the watch session of one repository: events, removal -------

InitWatch == InitWith({1}, <<1>>, Faults, {{}}) /\ NoScan

NextWatch ==
    \/ Startup
    \/ \E r \in Repos, k \in EventKinds : OnAnyEvent(r, k)
    \/ \E r \in Repos : ObsScan(r)
    \/ \E r \in Repos : ObsWrite(r)
    \/ \E r \in Repos : ObsFinish(r)
    \/ \E r \in Repos : RemoveRepository(r)
    \/ \E r \in Repos, k \in {"other", "tmp"} : EditFile(r, k)
    \/ \E r \in Repos : EditAlign(r)
    \/ Tick

SpecWatch == InitWatch /\ [][NextWatch]_vars

\* ---- the watch session of one repository while time goes on ------

\* a time the program keeps, one tick further in the past
Back(t) == IF t > 0 THEN t - 1 ELSE 0

\* time.time() goes on beyond the clock range: instead of now, every time
\* the program keeps is moved back by one tick, which keeps the distances
\* that the gate compares with the cooldown
Elapse ==
    /\ now = MaxTime
    /\ last_refresh' = [r \in Repos |-> Back(last_refresh[r])]
    /\ accepted' = [r \in Repos |->
                       SelectSeq([i \in 1..Len(accepted[r]) |-> Back(accepted[r][i])],
                                 LAMBDA t : t > 0)]
    /\ lastEvent' = [r \in Repos |-> [lastEvent[r] EXCEPT !.at = Back(@)]]
    /\ UNCHANGED <<fsVars, observers, sessions, current_hash, saved_hash, is_refreshing,
                   pending, obsVars, uiVars, now, scanVars>>

\* events and refreshes of a watched repository whose files are written
\* from outside, with time that does not end
NextQuiet ==
    \/ Startup
    \/ \E r \in Repos, k \in EventKinds : OnAnyEvent(r, k)
    \/ \E r \in Repos : ObsScan(r)
    \/ \E r \in Repos : ObsWrite(r)
    \/ \E r \in Repos : ObsFinish(r)
    \/ \E r \in Repos : EditFile(r, "other")
    \/ \E r \in Repos : EditAlign(r)
    \/ Tick
    \/ Elapse

\* the observer thread takes the events of its queue one after the other
\* and runs the handler to its end
ObserverRuns ==
    /\ WF_vars(\E r \in Repos, k \in EventKinds : OnAnyEvent(r, k))
    /\ WF_vars(\E r \in Repos : ObsScan(r))
    /\ WF_vars(\E r \in Repos : ObsWrite(r))
    /\ WF_vars(\E r \in Repos : ObsFinish(r))

SpecQuiet == InitWatch /\ [][NextQuiet]_vars /\ ObserverRuns

\* ---- events of hashed and of excluded files of one repository ----

NextExcluded ==
    \/ Startup
    \/ \E r \in Repos, k \in EventKinds \cup {"excluded"} : OnAnyEvent(r, k)
    \/ \E r \in Repos : ObsScan(r)
    \/ \E r \in Repos : ObsWrite(r)
    \/ \E r \in Repos : ObsFinish(r)
    \/ \E r \in Repos : EditFile(r, "other")
    \/ \E r \in Repos : EditExcluded(r)
    \/ Tick

SpecExcluded == InitGate /\ [][NextExcluded]_vars

\* ---- the handlers of one repository over restarts ----------------

\* main lines 764-771 and 758-759: the window is closed, stop_all joins
\* the observers and the process ends; the next process starts with the
\* files and the config file as they are
Restart ==
    /\ uiPc = "idle"
    /\ \A r \in observers : obsPc[r] = "idle"
    /\ SetHandlerState(DropAll(HandlerState, observers))
    /\ pending' = [r \in Repos |-> {}]
    /\ accepted' = [r \in Repos |-> <<>>]
    /\ lastEvent' = [r \in Repos |-> NoEvent]
    /\ uiEntries' = {}
    /\ uiPc' = "startup"
    /\ UNCHANGED <<fsVars, obsVars, repos, uiOp, uiList, uiIdx, uiCount,
                   uiHash, uiRet, statusMsg, now, scanVars>>

InitRestart == InitWith({1}, <<1>>, Faults, {{}}) /\ NoScan

NextRestart ==
    \/ Startup
    \/ \E sel \in SUBSET Repos : RefreshSelected(sel)
    \/ RefreshAll
    \/ UiScan
    \/ UiWrite
    \/ BulkAfter
    \/ \E p \in Repos : AddRepository(p)
    \/ AddAfter
    \/ \E r \in Repos : RemoveRepository(r)
    \/ Restart

SpecRestart == InitRestart /\ [][NextRestart]_vars

\* ---- the watch sessions over every way a path gets or loses one ---

\* two healthy directories, the first one tracked; the watch of the
\* second one may fail
InitSessions == InitWith({1, 2}, <<1>>, {"none"}, {{}, {2}}) /\ NoScan

NextSessions ==
    \/ Startup
    \/ RefreshAll
    \/ UiScan
    \/ UiWrite
    \/ BulkAfter
    \/ \E p \in Repos : AddRepository(p)
    \/ AddAfter
    \/ \E r \in Repos : RemoveRepository(r)
    \/ \E p \in Repos : ConfigEdited(p)
    \/ \E p \in Repos : ConfigDropped(p)
    \/ Restart

SpecSessions == InitSessions /\ [][NextSessions]_vars

\* ------------------------------------------------------------ claims

\* the sidecar holds the fingerprint of the tree as it is
Persisted(r) == exists[r] /\ sidecar[r] = calculate_repo_hash(r)

\* C1: a call of refresh_repo that follows a call which wrote Align.md,
\* with no change of the file system between the two, writes nothing and
\* returns True.  Under SpecUi only refresh_repo writes to the file system,
\* so Align.md exists exactly when an earlier call wrote it.
C1_SecondRefreshIsNoop ==
    [][(UiScan /\ alignDoc[UiRepo] # NoDoc /\ fault[UiRepo] = "none")
         => uiRet' = "True"]_vars

\* C2: the observer thread and the UI thread are never both between the
\* scan and the write of refresh_repo for the same repository.
C2_RefreshesSerialized ==
    \A r \in Repos :
        ~(obsPc[r] = "write" /\ uiPc = "write" /\ uiOp = "bulk" /\ UiRepo = r)

LastAccepted(r) == accepted[r][Len(accepted[r])]

C4_WriteFailureKeepsHashes ==
    [][/\ (UiWrite /\ fault[UiRepo] # "none")
            => (uiRet' = "False" /\ UNCHANGED <<current_hash, saved_hash>>)
       /\ \A r \in Repos :
            (ObsWrite(r) /\ fault[r] # "none")
            => (obsRet'[r] = "False" /\ UNCHANGED <<current_hash, saved_hash>>)]_vars

\* a refresh of r is in flight: its handler is processing an event, or a
\* bulk refresh has not yet finished with it
InFlight(r) ==
    \/ obsPc[r] # "idle"
    \/ /\ uiPc \in {"scan", "write", "after"}
       /\ \E i \in uiIdx..Len(uiList) : uiList[i] = r

\* C5: the status shown for a listed repository is UPDATING exactly when a
\* refresh of it is in flight.
C5_UpdatingIffInFlight ==
    \A r \in Range(repos) \cap uiEntries :
        (update_repo_status(r) = "UPDATING") <=> InFlight(r)

\* some directory above the file has the name of a built-in ignore entry
BelowBuiltin(f) == \E i \in 1..(Len(f) - 1) : f[i] \in DEFAULT_IGNORES

\* C6: a file below a built-in ignored directory or matched by a pattern
\* of .gitignore is neither hashed nor listed, and a file that no rule
\* matches is both.
C6_IgnoredInNeither ==
    scanPc = "done" =>
        \A f \in scanFiles :
            /\ (BelowBuiltin(f) \/ match_file(scanSpec, f))
                  => (f \notin hashed /\ f \notin ListedFiles(listing))
            /\ (\A i \in 1..Len(f) : ~should_ignore(f[i], SubSeq(f, 1, i), scanSpec))
                  => (f \in ListedFiles(listing) /\ (f # <<AlignName>> => f \in hashed))

\* C7: the files fed to the hash are the files listed, Align.md excepted.
C7_HashedIsListed ==
    scanPc = "done" => hashed = ListedFiles(listing) \ {<<AlignName>>}

\* C8: in a bulk refresh every listed repository is attempted, whatever
\* became of those before it, and the count reported at the end is the
\* number of listed repositories whose persisted fingerprint was brought up
\* to date, out of the length of the list.
C8_BulkCountsPersisted ==
    [][BulkAfter =>
         /\ uiIdx < Len(uiList)
               => (uiPc' = "scan" /\ uiIdx' = uiIdx + 1 /\ uiList' = uiList)
         /\ uiIdx = Len(uiList)
               => statusMsg' =
                     <<Cardinality({i \in 1..Len(uiList) : Persisted(uiList[i])}),
                       Len(uiList)>>]_vars

\* C9: processing a repository whose path is missing, in refresh_repo and
\* in the bulk refresh around it, changes no field of its handler and no
\* file.
C9_MissingPathNoMutation ==
    [][/\ (UiScan /\ ~exists[UiRepo])
            => (uiRet' = "False" /\ UNCHANGED <<fsVars, handlerVars>>)
       /\ (BulkAfter /\ ~exists[UiRepo] /\ uiRet = "False")
            => /\ current_hash'[UiRepo] = current_hash[UiRepo]
               /\ saved_hash'[UiRepo] = saved_hash[UiRepo]
               /\ last_refresh'[UiRepo] = last_refresh[UiRepo]
               /\ UNCHANGED fsVars]_vars

\* C10: once main() is past the start-up loop, every tracked repository
\* whose own watch session can be established has one.
C10_OtherWatchesEstablished ==
    uiPc \in {"idle", "exited"} =>
        \A r \in Range(repos) \ watchFails : r \in observers

\* the fields of the handler of r
HandlerFields(r) ==
    <<current_hash[r], saved_hash[r], last_refresh[r], is_refreshing[r]>>

\* C11: remove_repository returns only when the observer thread is outside
\* the handler, it leaves no event of the repository behind, and from then
\* on, while the repository has no record in the registry, no step starts
\* or continues a refresh on its observer thread or changes the fields of
\* its handler.
C11_NoEventAfterRemoval ==
    [][\A r \in Repos :
          /\ RemoveRepository(r)
                => (obsPc[r] = "idle" /\ pending'[r] = {} /\ r \notin observers')
          /\ (r \notin observers /\ r \notin observers')
                => /\ obsPc'[r] = "idle"
                   /\ pending'[r] = {}
                   /\ HandlerFields(r)' = HandlerFields(r)]_vars

\* the repository was refreshed on an event, then removed, and its files
\* were changed after that
C11_RemovedAfterRefresh ==
    /\ 1 \notin Range(repos) /\ 1 \notin observers
    /\ alignDoc[1] = EditedDoc
    /\ tree[1] # 0

\* C12: the digest calculate_repo_hash returns for a tree is the one it
\* returns for every order in which the walk can enumerate the files.
C12_DigestOrderFree ==
    scanPc \in {"hashed", "rehashed"} =>
        \A walk \in Walks(scanFiles) :
            digest = Digest(walk, scanBytes, scanSpec)

\* two or more files were fed to the hash
C12_SeveralHashed ==
    /\ scanPc = "hashed"
    /\ Cardinality(hashed) >= 2

\* the file is left out by the rules: it is the snapshot document, or
\* its name or the name of a directory above it is ignored
Ignored(f, gitignore_spec) ==
    \/ f = <<AlignName>>
    \/ \E i \in 1..Len(f) : should_ignore(f[i], SubSeq(f, 1, i), gitignore_spec)

\* C13: after one file was modified, added or removed, the digest differs
\* from the one before when the file is not ignored, and is the same when
\* it is ignored.
C13_DigestTracksChange ==
    scanPc = "rehashed" =>
        IF Ignored(changed, scanSpec)
        THEN digest = prevDigest
        ELSE digest # prevDigest

\* C14: an event handed to the handler less than one cooldown after the
\* last accepted refresh start changes no field of the handler and no
\* file, starts no refresh and is gone from the queue; and a refresh on
\* the observer thread only ever starts in the step that takes an event
\* from the queue while the gate is open, so a dropped event has no later
\* effect.
C14_DroppedEventNoEffect ==
    [][\A r \in Repos :
          /\ \A k \in EventKinds :
                (/\ OnAnyEvent(r, k)
                 /\ accepted[r] # <<>>
                 /\ now - LastAccepted(r) < REFRESH_COOLDOWN)
                => /\ HandlerFields(r)' = HandlerFields(r)
                   /\ obsPc'[r] = "idle"
                   /\ pending'[r] = pending[r] \ {k}
                   /\ accepted' = accepted
                   /\ UNCHANGED fsVars
          /\ (obsPc[r] = "idle" /\ obsPc'[r] # "idle")
                => \E k \in pending[r] \ pending'[r] :
                      ~Filtered(k) /\ now - last_refresh[r] >= REFRESH_COOLDOWN]_vars

\* a change made in the cooldown window is left unsynchronized: its event
\* is gone, the handler is idle and the saved hash is not that of the tree
C14_ChangeLeftStale ==
    \E r \in observers :
        /\ accepted[r] # <<>> /\ LastAccepted(r) = now
        /\ lastEvent[r].at = now
        /\ obsPc[r] = "idle" /\ pending[r] = {}
        /\ saved_hash[r] # calculate_repo_hash(r)

\* C15 as stated: once a refresh has started and closed the gate, an
\* event that comes less than one cooldown after the event before it
\* starts no refresh.
C15_StreamStartsNoRefresh ==
    [][\A r \in Repos, k \in EventKinds :
          (OnAnyEvent(r, k) /\ InStream(r) /\ accepted[r] # <<>>)
          => obsPc'[r] = "idle"]_vars

\* C15 amended: the gate re-opens one cooldown after last_refresh whether
\* or not events came in between: an event that comes less than one
\* cooldown after the event before it starts a refresh exactly when its
\* path is not skipped and a cooldown has passed since last_refresh.
C15_StreamThrottled ==
    [][\A r \in Repos, k \in EventKinds :
          (OnAnyEvent(r, k) /\ InStream(r)) =>
             (obsPc'[r] = "scan"
                <=> (~Filtered(k) /\ now - last_refresh[r] >= REFRESH_COOLDOWN))]_vars

\* an event of a stream was accepted, after an earlier one was
C15_AcceptedInStream ==
    \E r \in Repos :
        /\ obsPc[r] = "scan"
        /\ lastEvent[r] = [at |-> now, close |-> TRUE]
        /\ Len(accepted[r]) >= 2 /\ LastAccepted(r) = now

\* C16: an event on Align.md or on a .tmp file starts no refresh and
\* leaves the fields of the handler as they are, whether the gate is open
\* or closed.
C16_FilteredEventIgnored ==
    [][\A r \in Repos, k \in EventKinds :
          (OnAnyEvent(r, k) /\ k \in {"align", "tmp"})
          => /\ obsPc'[r] = "idle"
             /\ HandlerFields(r)' = HandlerFields(r)
             /\ accepted' = accepted
             /\ UNCHANGED fsVars]_vars

\* the handler just got an event while its gate was open and stayed idle
C16_FilteredWhileOpen ==
    \E r \in observers :
        /\ lastEvent[r].at = now
        /\ obsPc[r] = "idle"
        /\ now - last_refresh[r] >= REFRESH_COOLDOWN

\* the text old is the beginning of the text new
TextPrefix(old, new) ==
    Len(old) <= Len(new) /\ SubSeq(new, 1, Len(old)) = old

\* some line of the text is Align.md and nothing else
AlignIsLine(text) ==
    \E i \in 1..Len(text) :
        /\ text[i] = "Align.md"
        /\ i = 1 \/ text[i - 1] = "\n"
        /\ i = Len(text) \/ text[i + 1] = "\n"

C18_UpToDateDocIsCurrent ==
    \A r \in observers :
        (/\ ~InFlight(r)
         /\ exists[r]
         /\ alignDoc[r] # EditedDoc
         /\ saved_hash[r] = calculate_repo_hash(r))
        => alignDoc[r] = Render(r)

\* C19: the step of refresh_repo that writes Align.md for a watched
\* repository and returns True leaves current_hash, saved_hash and the
\* sidecar equal to the fingerprint that refresh computed, and the status
\* derived after it, the tree being as it was hashed, is UP_TO_DATE.
C19_WriteSyncsAllThree ==
    [][/\ (UiWrite /\ UiRepo \in observers /\ uiRet' = "True")
            => /\ current_hash'[UiRepo] = uiHash
               /\ saved_hash'[UiRepo] = uiHash
               /\ sidecar'[UiRepo] = uiHash
               /\ uiHash = calculate_repo_hash(UiRepo)
                     => StatusOf(TRUE, FALSE, calculate_repo_hash(UiRepo),
                                 saved_hash'[UiRepo]) = "UP_TO_DATE"
       /\ \A r \in observers :
            (ObsWrite(r) /\ obsRet'[r] = "True")
            => /\ current_hash'[r] = obsHash[r]
               /\ saved_hash'[r] = obsHash[r]
               /\ sidecar'[r] = obsHash[r]]_vars

\* C20: a handler built for a repository whose Align.md was written by a
\* refresh, with no change of the files since, has saved_hash equal to
\* current_hash, shows UP_TO_DATE, and the next refresh is a no-op.
\* Under SpecRestart only refresh_repo writes files.
C20_NewHandlerRecoversSync ==
    [][\A r \in Repos :
          (r \notin observers /\ r \in observers' /\ alignDoc[r] # NoDoc)
          => /\ saved_hash'[r] = current_hash'[r]
             /\ StatusOf(TRUE, is_refreshing'[r], current_hash'[r],
                         saved_hash'[r]) = "UP_TO_DATE"
             /\ current_hash'[r] = ScanHash(r)]_vars

\* C21: the step in which an event passes the gate sets is_refreshing of
\* its handler, and the step that ends the handling of the event, whatever
\* refresh_repo returned, leaves it false.
C21_FlagSetThenCleared ==
    [][\A r \in Repos :
          /\ (obsPc[r] = "idle" /\ obsPc'[r] # "idle") => is_refreshing'[r]
          /\ ObsFinish(r) => ~is_refreshing'[r]
          /\ (obsPc[r] # "idle" /\ obsPc'[r] = "idle") => ~is_refreshing'[r]]_vars

\* the handling of an accepted event ended after refresh_repo had failed
\* to write Align.md
C21_EndedAfterFailure ==
    \E r \in observers :
        /\ accepted[r] # <<>>
        /\ obsPc[r] = "idle"
        /\ fault[r] = "write" /\ alignDoc[r] = NoDoc
        /\ ~is_refreshing[r]

\* C22: once a bulk refresh has returned, no handler has is_refreshing set
\* unless a refresh of its repository is in flight on the observer thread.
C22_BulkLeavesNoFlag ==
    uiPc = "idle" =>
        \A r \in observers : is_refreshing[r] => obsPc[r] # "idle"

\* C23: refresh_all_repos passes to the bulk refresh exactly the tracked
\* repositories whose fresh fingerprint differs from the persisted one,
\* watched before the call or not.
C23_RefreshAllOnlyMismatches ==
    [][RefreshAll =>
          Range(uiList') = {r \in Range(repos) :
                               calculate_repo_hash(r) # read_hash_from_metadata(r)}]_vars

\* a file of a watched tree or its Align.md is written from outside
ExternalChange ==
    \E r \in Repos : EditFile(r, "other") \/ EditAlign(r)

\* C24: once the changes from outside have stopped, from some time on no
\* refresh is in flight and none starts, although refreshes write
\* Align.md, the sidecar and .gitignore into the watched tree.
C24_QuiescentAfterChanges ==
    <>[][~ExternalChange]_vars => <>[](\A r \in Repos : obsPc[r] = "idle")

\* the event of the program's own write to .gitignore started a second
\* refresh, which found nothing to do
C24_OwnWriteRefreshedOnce ==
    \E r \in observers :
        /\ Len(accepted[r]) = 2
        /\ obsPc[r] = "finish" /\ obsRet[r] = "True"
        /\ tree[r] = 0 /\ alignDoc[r] = Render(r)

\* C25: an event on a path that is excluded from the fingerprint leaves
\* last_refresh of the handler as it is.
C25_ExcludedEventKeepsGate ==
    [][\A r \in Repos :
          OnAnyEvent(r, "excluded") => last_refresh'[r] = last_refresh[r]]_vars

\* on_any_event line 245 on the path of the event: the handler returns
\* at once when the path ends with Align.md or with .tmp
SkippedPath(f) ==
    EndsWith(RelPath(f), AlignName) \/ EndsWith(RelPath(f), <<".tmp">>)

\* C26: a file whose events the handler skips unconditionally is not fed
\* to the hash.
C26_SkippedFilesNotHashed ==
    scanPc = "done" => \A f \in scanFiles : SkippedPath(f) => f \notin hashed

\* C27: last_refresh of a handler is not advanced by a bulk-refresh entry
\* that returned False, by refresh_all_repos finding the repository up to
\* date, or by a refresh started by an event that returned False.
C27_AdvancedOnlyBySuccess ==
    [][/\ (BulkAfter /\ uiRet = "False" /\ UiRepo \in observers)
            => last_refresh'[UiRepo] = last_refresh[UiRepo]
       /\ RefreshAll
            => \A r \in observers :
                  calculate_repo_hash(r) = saved_hash[r]
                      => last_refresh'[r] = last_refresh[r]
       /\ \A r \in Repos :
             (ObsFinish(r) /\ obsRet[r] = "False")
                 => last_refresh[r] # LastAccepted(r)]_vars

\* C28: two different sets of files never give the same stream: after a
\* file was renamed, with or without a change of its bytes, the digest
\* differs from the one before.
C28_StreamInjective ==
    scanPc = "rehashed" => digest # prevDigest

\* C29: no step leaves a path with more than one started observer, the
\* registry holds exactly the paths that have one, and remove_repository
\* leaves the removed path with none.
C29_OneSessionPerPath ==
    [][\A r \in Repos :
          /\ sessions'[r] <= 1
          /\ sessions'[r] = 1 <=> r \in observers'
          /\ RemoveRepository(r) => sessions'[r] = 0]_vars

\* a repository that was refreshed and then removed has no session while
\* another one is watched
C29_RemovedHasNoSession ==
    \E r \in Repos, q \in observers :
        /\ r \notin Range(repos) /\ alignDoc[r] # NoDoc
        /\ sessions[r] = 0 /\ sessions[q] = 1
        /\ uiPc = "idle"

\* the directory an entry of the listing is in
ParentOf(e) == SubSeq(e.path, 1, Len(e.path) - 1)

\* C30: among the entries of one directory every subdirectory is listed
\* before every file and each of the two groups ascends by name; an entry
\* below the root comes after the entry of its directory, one level and
\* four spaces deeper, with only entries of that directory in between.
C30_DirsFirstSortedNested ==
    scanPc = "done" =>
        /\ \A i, j \in 1..Len(listing) :
              (i < j /\ ParentOf(listing[i]) = ParentOf(listing[j])) =>
                  /\ listing[j].is_dir => listing[i].is_dir
                  /\ (listing[i].is_dir = listing[j].is_dir)
                        => Rank(listing[i].entry) < Rank(listing[j].entry)
        /\ \A j \in 1..Len(listing) :
              /\ Len(MarkdownIndent(listing[j].level)) = 4 * (Len(listing[j].path) - 1)
              /\ Len(listing[j].path) > 1 =>
                    \E i \in 1..(j - 1) :
                        /\ listing[i].is_dir
                        /\ listing[i].path = ParentOf(listing[j])
                        /\ listing[j].level = listing[i].level + 1
                        /\ \A k \in (i + 1)..j : IsPrefix(listing[i].path, listing[k].path)

\* the example of the claim: sub/ with a file below it is listed before
\* a file of the root whose name sorts before "sub"
C30_DirBeforeEarlierFile ==
    /\ scanPc = "done"
    /\ \E i, j, k \in 1..Len(listing) :
          /\ i < j /\ j < k
          /\ listing[i].is_dir /\ listing[i].level = 0
          /\ ~listing[j].is_dir /\ listing[j].level = 1
          /\ ~listing[k].is_dir /\ listing[k].level = 0
          /\ Rank(listing[k].entry) < Rank(listing[i].entry)

\* C31: in every document the stats field of every file line starts at
\* column 50 + 4 * (largest nesting depth), with at least one space
\* between the file name and the field.
C31_StatsColumnFixed ==
    scanPc = "done" =>
        \A i \in 1..Len(listing) :
            ~listing[i].is_dir =>
                /\ current_width(listing[i]) + Len(padding(listing[i], listing))
                      = 50 + 4 * max_indent_level(listing)
                /\ Len(padding(listing[i], listing)) >= 1

====
